---- MODULE Spec2Model ----
(***************************************************************************)
(* AI-SOC: the MITRE ATT&CK ingestion pipeline (scripts/process_mitre.py)  *)
(* and the retriever of the chat backend (backend/rag_chat.py).            *)
(*                                                                         *)
(* JSON values.  An optional value (dict.get without a default) is a       *)
(* sequence of length 0 (key absent, Python None) or 1 (the value).        *)
(* Strings are TLA+ strings; f-strings and join are string concatenation.  *)
(***************************************************************************)
EXTENDS Integers, Sequences, FiniteSets, TLC

VARIABLES
    corpus,      \* data["objects"] of the knowledge-base file
    store,       \* the collection of the vector store: key -> entry
    pc,          \* position of main() of process_mitre.py
    run,         \* number of the current ingestion run
    objects,     \* main: objects (the list load_mitre_data returned)
    count,       \* main: count
    documents,   \* main: documents
    metadatas,   \* main: metadatas
    ids,         \* main: ids
    embeddings,  \* main: embeddings
    origins,     \* history: native id of the object each list position came from
    log,         \* the messages printed by the ingestion loop
    i,           \* main: i of the upsert loop
    calls,       \* history: the collection.upsert calls of this run
    cpc,         \* position of chat_loop / get_context of rag_chat.py
    user_input,  \* chat_loop: user_input
    results,     \* get_context: results of collection.query
    context,     \* chat_loop: context (the value get_context returned)
    queried,     \* history: number of collection.query calls of this turn
    failed,      \* history: the service call that has just failed, if any
    history,     \* chat_loop: history
    messages,    \* chat_loop: messages (the request of this turn)
    full_response, \* chat_loop: full_response
    streamed,    \* history: number of chunks of the stream consumed
    typed,       \* history: the line input() returned last, if any
    terminatedBy, \* history: what ended the loop ("exit", "interrupt")
    svc,         \* history: the services called for the current input
    turns,       \* history: number of turns completed
    models,      \* history: the model identifiers given to ollama.embeddings
    apc,         \* position of main() of audit_mitre.py
    scanned,     \* audit: number of objects of all_objects the loop has passed
    relevant_objects, \* audit: relevant_objects
    skipped_types,    \* audit: skipped_types
    skipped_revoked,  \* audit: skipped_revoked
    outcome      \* audit: the diagnosis printed last

vars == <<corpus, store, pc, run, objects, count, documents, metadatas, ids,
          embeddings, origins, log, i, calls, cpc, user_input, results, context,
          queried, failed, history, messages, full_response, streamed, typed,
          terminatedBy, svc, turns, models, apc, scanned, relevant_objects,
          skipped_types, skipped_revoked, outcome>>

auditVars == <<apc, scanned, relevant_objects, skipped_types, skipped_revoked,
               outcome>>

ingestVars == <<corpus, store, pc, run, objects, count, documents, metadatas,
                ids, embeddings, origins, log, i, calls>>

chatVars == <<cpc, user_input, results, context, queried, failed, history,
              messages, full_response, streamed, typed, terminatedBy, svc, turns>>

-----------------------------------------------------------------------------
(* Bounds of the model *)

MaxObjs == 3        \* longest corpus of Spec
MaxColl == 4        \* longest corpus of SpecRerun
MaxRuns == 2        \* ingestion runs of SpecRerun
MaxN == 250         \* most embedded records handed to the Batch Indexer
MaxStore == 4       \* most entries of the store in SpecChat
MaxTurns == 2       \* most turns answered in SpecChat
MaxChunks == 2      \* longest stream of the chat-completion service
MaxAudit == 3       \* longest corpus of SpecAudit
MaxServe == 1       \* longest corpus of SpecServe

(* Program constants *)

batch_size == 100
N_RESULTS == 3

ALLOWED_TYPES ==
    {"attack-pattern", "malware", "tool", "intrusion-set",
     "course-of-action", "campaign"}

OLLAMA_MODEL == "nomic-embed-text"

\* a serving model other than the indexing model
EMBEDDING_MODEL_Other == "all-minilm"

EMBEDDING_MODEL == "nomic-embed-text"

-----------------------------------------------------------------------------
(* Optional values *)

None == <<>>
Some(v) == <<v>>

\* dict.get(key, default)
Get(opt, default) == IF opt = None THEN default ELSE opt[1]

\* Python truthiness of an optional JSON boolean
Truthy(opt) == opt # None /\ opt[1] = TRUE

Min(a, b) == IF a < b THEN a ELSE b

RECURSIVE Join(_, _)
\* sep.join(parts)
Join(parts, sep) ==
    IF parts = <<>> THEN ""
    ELSE IF Len(parts) = 1 THEN parts[1]
    ELSE parts[1] \o sep \o Join(Tail(parts), sep)

RECURSIVE Repeat(_, _)
\* s * n
Repeat(s, n) == IF n <= 0 THEN "" ELSE s \o Repeat(s, n - 1)

-----------------------------------------------------------------------------
(* process_mitre.py: the pure functions *)

\* Eligible without the x_mitre_deprecated test of line 37
Eligible_NoDeprecated(obj) ==
    /\ obj.type # None
    /\ obj.type[1] \in ALLOWED_TYPES
    /\ ~Truthy(obj.revoked)

\* the two tests of the body of the loop of load_mitre_data
Eligible(obj) ==
    /\ obj.type # None
    /\ obj.type[1] \in ALLOWED_TYPES
    /\ ~(Truthy(obj.revoked) \/ Truthy(obj.x_mitre_deprecated))

RECURSIVE load_mitre_data(_)
load_mitre_data(objs) ==
    IF objs = <<>> THEN <<>>
    ELSE IF Eligible(Head(objs))
         THEN <<Head(objs)>> \o load_mitre_data(Tail(objs))
         ELSE load_mitre_data(Tail(objs))

RECURSIVE extract_mitre_id(_)
extract_mitre_id(external_references) ==
    IF external_references = <<>> THEN "UNKNOWN"
    ELSE IF Head(external_references).source_name = Some("mitre-attack")
         THEN Get(Head(external_references).external_id, "UNKNOWN")
         ELSE extract_mitre_id(Tail(external_references))

\* MitreId without the fallback of lines 118-119
MitreId_NoFallback(obj) == extract_mitre_id(obj.external_references)

\* main, lines 117-119: the domain id of an object
MitreId(obj) ==
    LET mitre_id == extract_mitre_id(obj.external_references)
    IN  IF mitre_id = "UNKNOWN" THEN obj.id ELSE mitre_id

\* normalize_list of an optional list of strings
normalize_list(item) == IF item = None THEN "" ELSE Join(item[1], ", ")

RECURSIVE MitreUrl(_)
\* main, line 129: url of the first mitre-attack reference
MitreUrl(external_references) ==
    IF external_references = <<>> THEN ""
    ELSE IF Head(external_references).source_name = Some("mitre-attack")
         THEN Get(Head(external_references).url, "")
         ELSE MitreUrl(Tail(external_references))

\* main, lines 125-132
Metadata(obj, mitre_id) ==
    [mitre_id |-> mitre_id,
     name |-> Get(obj.name, "Unknown"),
     type |-> Get(obj.type, "None"),
     url |-> MitreUrl(obj.external_references),
     platforms |-> normalize_list(obj.x_mitre_platforms),
     deprecated |-> IF Truthy(obj.x_mitre_deprecated) THEN "True" ELSE "False"]

Header(obj, mitre_id) ==
    mitre_id \o ": " \o Get(obj.name, "Unknown") \o " ("
        \o Get(obj.type, "None") \o ")"

\* generate_document_text with the detection line before the platforms line
generate_document_text_DetectionFirst(obj, mitre_id) ==
    LET description == Get(obj.description, "")
        platforms == normalize_list(obj.x_mitre_platforms)
        detection == Get(obj.x_mitre_detection, "")
        permissions == normalize_list(obj.x_mitre_permissions_required)
        header == Header(obj, mitre_id)
        text_parts ==
            <<header, Repeat("=", Len(header)), "Description: " \o description>>
            \o (IF detection # "" THEN <<"Detection: " \o detection>> ELSE <<>>)
            \o (IF platforms # "" THEN <<"Platforms: " \o platforms>> ELSE <<>>)
            \o (IF permissions # ""
                THEN <<"Permissions Required: " \o permissions>> ELSE <<>>)
    IN  Join(text_parts, "\n\n")

\* lines 57-87
generate_document_text(obj, mitre_id) ==
    LET description == Get(obj.description, "")
        platforms == normalize_list(obj.x_mitre_platforms)
        detection == Get(obj.x_mitre_detection, "")
        permissions == normalize_list(obj.x_mitre_permissions_required)
        header == Header(obj, mitre_id)
        text_parts ==
            <<header, Repeat("=", Len(header)), "Description: " \o description>>
            \o (IF platforms # "" THEN <<"Platforms: " \o platforms>> ELSE <<>>)
            \o (IF permissions # ""
                THEN <<"Permissions Required: " \o permissions>> ELSE <<>>)
            \o (IF detection # "" THEN <<"Detection: " \o detection>> ELSE <<>>)
    IN  Join(text_parts, "\n\n")

\* main, lines 155-158: the key of a record, given the keys assigned so far
UniqId(mitre_id, obj, assigned) ==
    IF \E j \in 1..Len(assigned) : assigned[j] = mitre_id
    THEN mitre_id \o "_" \o obj.id
    ELSE mitre_id

\* the vector the embedding service returns for a text
Vector(text) == <<"embedding", text>>

-----------------------------------------------------------------------------
(* The knowledge base: data["objects"] *)

Ref(source_name, external_id) ==
    [source_name |-> Some(source_name), external_id |-> external_id,
     url |-> Some("u")]

KnowledgeObject(type, revoked, deprecated, refs) ==
    [type |-> type, revoked |-> revoked, x_mitre_deprecated |-> deprecated,
     external_references |-> refs, name |-> Some("N"),
     description |-> Some("D"), x_mitre_platforms |-> None,
     x_mitre_detection |-> None, x_mitre_permissions_required |-> None]

\* the STIX id of the object at position k of the file: pairwise distinct
NativeId(k) == "n" \o ToString(k)

MitreRef(external_id) == Ref("mitre-attack", Some(external_id))

EligibleShapes ==
    {KnowledgeObject(Some("malware"), Some(FALSE), Some(FALSE),
                     <<MitreRef("T1")>>),
     KnowledgeObject(Some("attack-pattern"), None, None,
                     <<MitreRef("T1_n3")>>),
     KnowledgeObject(Some("tool"), None, None,
                     <<Ref("capec", Some("C1")), MitreRef("T2"),
                       MitreRef("T1")>>),
     KnowledgeObject(Some("campaign"), None, None,
                     <<Ref("mitre-attack", None)>>),
     KnowledgeObject(Some("course-of-action"), None, None,
                     <<Ref("capec", Some("C1"))>>),
     KnowledgeObject(Some("intrusion-set"), None, Some(FALSE),
                     <<MitreRef("UNKNOWN")>>)}

IneligibleShapes ==
    {KnowledgeObject(Some("x-mitre-tactic"), None, None, <<MitreRef("TA1")>>),
     KnowledgeObject(Some("intrusion-set"), Some(TRUE), None,
                     <<MitreRef("T1")>>),
     KnowledgeObject(Some("malware"), None, Some(TRUE), <<MitreRef("T2")>>),
     KnowledgeObject(None, None, None, <<MitreRef("T1")>>)}

Shapes == EligibleShapes \cup IneligibleShapes

\* the shapes of SpecRerun: eligible objects whose domain ids collide
CollidingShapes ==
    {KnowledgeObject(Some("attack-pattern"), None, None, <<MitreRef("T1")>>),
     KnowledgeObject(Some("attack-pattern"), None, None,
                     <<MitreRef("T1_n2")>>)}

\* the corpora of at most n objects over the shapes S, ids by position
Corpora(S, n) ==
    UNION {{[k \in 1..m |-> [id |-> NativeId(k)] @@ f[k]] : f \in [1..m -> S]} :
             m \in 0..n}

-----------------------------------------------------------------------------
(* The vector store (chromadb collection), by its contract *)

EmptyStore == [k \in {} |-> None]

Range(seq) == {seq[j] : j \in 1..Len(seq)}

\* the entry collection.upsert writes for position j of the four lists
Entry(docs, embs, metas, orgs, j) ==
    [document |-> docs[j], embedding |-> embs[j], metadata |-> metas[j],
     origin |-> orgs[j]]

\* collection.upsert(documents, embeddings, metadatas, ids): every key of the
\* call is created or overwritten, every other entry is left as it is
Upsert(st, ks, docs, embs, metas, orgs) ==
    [k \in DOMAIN st \cup Range(ks) |->
        IF k \in Range(ks)
        THEN LET j == CHOOSE m \in 1..Len(ks) :
                        ks[m] = k /\ \A m2 \in (m + 1)..Len(ks) : ks[m2] # k
             IN  Entry(docs, embs, metas, orgs, j)
        ELSE st[k]]

-----------------------------------------------------------------------------
(* process_mitre.py: main *)

ChatOff ==
    /\ cpc = "off"
    /\ user_input = ""
    /\ results = <<>>
    /\ context = ""
    /\ queried = 0
    /\ failed = "none"
    /\ history = <<>>
    /\ messages = <<>>
    /\ full_response = ""
    /\ streamed = 0
    /\ typed = None
    /\ terminatedBy = "none"
    /\ svc = {}
    /\ turns = 0

AuditOff ==
    /\ apc = "off"
    /\ scanned = 0
    /\ relevant_objects = <<>>
    /\ skipped_types = 0
    /\ skipped_revoked = 0
    /\ outcome = "none"

\* the state in which a run of main() starts
MainStart ==
    /\ pc = "load"
    /\ objects = <<>>
    /\ count = 0
    /\ documents = <<>>
    /\ metadatas = <<>>
    /\ ids = <<>>
    /\ embeddings = <<>>
    /\ origins = <<>>
    /\ log = <<>>
    /\ i = 0
    /\ calls = <<>>

\* lines 99-113
Load ==
    /\ pc = "load"
    /\ objects' = load_mitre_data(corpus)
    /\ pc' = "loop"
    /\ UNCHANGED <<corpus, store, run, count, documents, metadatas, ids,
                   embeddings, origins, log, i, calls>>
    /\ UNCHANGED <<chatVars, auditVars, models>>

\* lines 24-25: the file is missing, FileNotFoundError ends main
LoadFail ==
    /\ pc = "load"
    /\ pc' = "failed"
    /\ UNCHANGED <<corpus, store, run, objects, count, documents, metadatas,
                   ids, embeddings, origins, log, i, calls>>
    /\ UNCHANGED <<chatVars, auditVars, models>>

\* lines 115-161, get_embedding returned a vector
IterateEmbedded ==
    /\ pc = "loop"
    /\ count < Len(objects)
    /\ LET obj == objects[count + 1]
           mitre_id == MitreId(obj)
           metadata == Metadata(obj, mitre_id)
           text_content == generate_document_text(obj, mitre_id)
       IN  /\ documents' = Append(documents, text_content)
           /\ metadatas' = Append(metadatas, metadata)
           /\ ids' = Append(ids, UniqId(mitre_id, obj, ids))
           /\ embeddings' = Append(embeddings, Vector(text_content))
           /\ origins' = Append(origins, obj.id)
    /\ count' = count + 1
    /\ UNCHANGED <<corpus, store, pc, run, objects, log, i, calls>>
    /\ models' = models \cup {OLLAMA_MODEL}
    /\ UNCHANGED <<chatVars, auditVars>>

\* SkipMessage that names no record
SkipMessage_Anonymous(mitre_id, at) == [skipping |-> "UNKNOWN", at |-> at]

\* the print of line 144
SkipMessage(mitre_id, at) == [skipping |-> mitre_id, at |-> at]

\* IterateSkipped with the key appended before the test of line 150
IterateSkipped_KeyAppended ==
    /\ pc = "loop"
    /\ count < Len(objects)
    /\ LET obj == objects[count + 1]
           mitre_id == MitreId(obj)
       IN  /\ log' = Append(log, SkipMessage(mitre_id, count + 1))
           /\ ids' = Append(ids, UniqId(mitre_id, obj, ids))
    /\ count' = count + 1
    /\ UNCHANGED <<corpus, store, pc, run, objects, documents, metadatas,
                   embeddings, origins, i, calls>>
    /\ models' = models \cup {OLLAMA_MODEL}
    /\ UNCHANGED <<chatVars, auditVars>>

\* lines 115-145, get_embedding returned None (lines 94-96)
IterateSkipped ==
    /\ pc = "loop"
    /\ count < Len(objects)
    /\ LET obj == objects[count + 1]
           mitre_id == MitreId(obj)
       IN  log' = Append(log, SkipMessage(mitre_id, count + 1))
    /\ count' = count + 1
    /\ UNCHANGED <<corpus, store, pc, run, objects, documents, metadatas, ids,
                   embeddings, origins, i, calls>>
    /\ models' = models \cup {OLLAMA_MODEL}
    /\ UNCHANGED <<chatVars, auditVars>>

\* lines 163-170: the loop is over, the client and the collection are opened
ConnectOk ==
    /\ pc = "loop"
    /\ count = Len(objects)
    /\ pc' = "upsert"
    /\ i' = 0
    /\ UNCHANGED <<corpus, store, run, objects, count, documents, metadatas,
                   ids, embeddings, origins, log, calls>>
    /\ UNCHANGED <<chatVars, auditVars, models>>

\* lines 166-167 raise: main ends with the exception
ConnectFail ==
    /\ pc = "loop"
    /\ count = Len(objects)
    /\ pc' = "failed"
    /\ UNCHANGED <<corpus, store, run, objects, count, documents, metadatas,
                   ids, embeddings, origins, log, i, calls>>
    /\ UNCHANGED <<chatVars, auditVars, models>>

\* the record of one collection.upsert call
Call(lo, hi, ok) ==
    [lo |-> lo, hi |-> hi, ok |-> ok,
     ids |-> SubSeq(ids, lo + 1, hi),
     documents |-> SubSeq(documents, lo + 1, hi),
     embeddings |-> SubSeq(embeddings, lo + 1, hi),
     metadatas |-> SubSeq(metadatas, lo + 1, hi),
     origins |-> SubSeq(origins, lo + 1, hi)]

\* End one short: the chunk is documents[lo : lo + batch_size - 1]
End_Short(lo) == Min(lo + batch_size - 1, Len(documents))

\* line 172
End(lo) == Min(lo + batch_size, Len(documents))

\* lines 171-179, the upsert of one chunk returned
UpsertOk ==
    /\ pc = "upsert"
    /\ i < Len(documents)
    /\ LET end == End(i)
       IN  /\ store' = Upsert(store, SubSeq(ids, i + 1, end),
                              SubSeq(documents, i + 1, end),
                              SubSeq(embeddings, i + 1, end),
                              SubSeq(metadatas, i + 1, end),
                              SubSeq(origins, i + 1, end))
           /\ calls' = Append(calls, Call(i, end, TRUE))
    /\ i' = i + batch_size
    /\ UNCHANGED <<corpus, pc, run, objects, count, documents, metadatas, ids,
                   embeddings, origins, log>>
    /\ UNCHANGED <<chatVars, auditVars, models>>

\* UpsertFail with the exception swallowed: the loop goes on to the next chunk
UpsertFail_Swallowed ==
    /\ pc = "upsert"
    /\ i < Len(documents)
    /\ calls' = Append(calls, Call(i, End(i), FALSE))
    /\ i' = i + batch_size
    /\ UNCHANGED <<corpus, store, pc, run, objects, count, documents,
                   metadatas, ids, embeddings, origins, log>>
    /\ UNCHANGED <<chatVars, auditVars, models>>

\* lines 171-179, the upsert of one chunk raised: main ends with the exception
UpsertFail ==
    /\ pc = "upsert"
    /\ i < Len(documents)
    /\ calls' = Append(calls, Call(i, End(i), FALSE))
    /\ pc' = "failed"
    /\ UNCHANGED <<corpus, store, run, objects, count, documents, metadatas,
                   ids, embeddings, origins, log, i>>
    /\ UNCHANGED <<chatVars, auditVars, models>>

\* line 181: range(0, len(documents), batch_size) is exhausted
Finish ==
    /\ pc = "upsert"
    /\ i >= Len(documents)
    /\ pc' = "done"
    /\ UNCHANGED <<corpus, store, run, objects, count, documents, metadatas,
                   ids, embeddings, origins, log, i, calls>>
    /\ UNCHANGED <<chatVars, auditVars, models>>

\* the script is started again over the same file and the same store
Rerun ==
    /\ pc \in {"done", "failed"}
    /\ run < MaxRuns
    /\ run' = run + 1
    /\ pc' = "load"
    /\ objects' = <<>>
    /\ count' = 0
    /\ documents' = <<>>
    /\ metadatas' = <<>>
    /\ ids' = <<>>
    /\ embeddings' = <<>>
    /\ origins' = <<>>
    /\ log' = <<>>
    /\ i' = 0
    /\ calls' = <<>>
    /\ UNCHANGED <<corpus, store>>
    /\ UNCHANGED <<chatVars, auditVars, models>>

Init ==
    /\ corpus \in Corpora(Shapes, MaxObjs)
    /\ store = EmptyStore
    /\ run = 1
    /\ MainStart
    /\ ChatOff
    /\ AuditOff
    /\ models = {}

Next ==
    \/ Load
    \/ IterateEmbedded
    \/ IterateSkipped
    \/ ConnectOk
    \/ ConnectFail
    \/ UpsertOk
    \/ UpsertFail
    \/ Finish

\* one ingestion run over any corpus, into an empty store
Spec == Init /\ [][Next]_vars

InitRerun ==
    /\ corpus \in Corpora(CollidingShapes, MaxColl)
    /\ store = EmptyStore
    /\ run = 1
    /\ MainStart
    /\ ChatOff
    /\ AuditOff
    /\ models = {}

NextRerun == Next \/ Rerun

\* ingestion runs, one after the other, over a corpus of colliding domain ids
SpecRerun == InitRerun /\ [][NextRerun]_vars

\* the lists a completed pass over n records hands to the Batch Indexer:
\* record j stands for itself, for its text, its metadata, its vector and its key
InitBatch ==
    /\ \E n \in 0..MaxN :
        /\ corpus = [j \in 1..n |-> j]
        /\ objects = corpus
        /\ count = n
        /\ documents = corpus
        /\ metadatas = corpus
        /\ ids = corpus
        /\ embeddings = corpus
        /\ origins = corpus
    /\ store = EmptyStore
    /\ run = 1
    /\ pc = "loop"
    /\ log = <<>>
    /\ i = 0
    /\ calls = <<>>
    /\ ChatOff
    /\ AuditOff
    /\ models = {}

NextBatch ==
    \/ ConnectOk
    \/ ConnectFail
    \/ UpsertOk
    \/ UpsertFail
    \/ Finish

\* the Batch Indexer over up to MaxN records
SpecBatch == InitBatch /\ [][NextBatch]_vars

-----------------------------------------------------------------------------
(* Properties of the ingestion pipeline *)

\* the object of the filtered list with native id nid
ObjOf(nid) == CHOOSE o \in Range(objects) : o.id = nid

\* the key under which the record of native id nid was appended
KeyOf(nid) == ids[CHOOSE j \in 1..Len(origins) : origins[j] = nid]

Embedded(obj) == obj.id \in Range(origins)

\* the keys handed to the upsert calls that returned
UpsertedKeys == UNION {Range(calls[c].ids) : c \in {d \in 1..Len(calls) : calls[d].ok}}

RECURSIVE SumLen(_)
\* the number of entries of a sequence of upsert calls
SumLen(cs) == IF cs = <<>> THEN 0 ELSE Len(Head(cs).ids) + SumLen(Tail(cs))

\* the inclusion rule as the specification states it
AllowSet ==
    {"attack-pattern", "malware", "tool", "intrusion-set", "course-of-action",
     "campaign"}

Included(o) ==
    /\ o.type \in {Some(t) : t \in AllowSet}
    /\ o.revoked \in {None, Some(FALSE)}
    /\ o.x_mitre_deprecated \in {None, Some(FALSE)}

IncludedAt == {k \in 1..Len(corpus) : Included(corpus[k])}

\* C1: once load_mitre_data has returned, its result is exactly the
\* subsequence of the input objects, in input order, whose type is in the
\* allow-set and whose revoked and deprecated flags are both unset: it has one
\* element per such object, and such an object at input position k is the
\* element whose rank is the number of such objects at positions up to k.
C1_FilterExact ==
    pc # "load" =>
        /\ Len(objects) = Cardinality(IncludedAt)
        /\ \A k \in IncludedAt :
            objects[Cardinality({m \in IncludedAt : m <= k})] = corpus[k]

\* an excluded object lies between two included ones
C1_Witness ==
    /\ pc # "load"
    /\ Len(corpus) = 3
    /\ IncludedAt = {1, 3}
    /\ objects = <<corpus[1], corpus[3]>>

\* C2: at every point of the ingestion loop the ids list holds no duplicate
\* (the native ids of the corpus are pairwise distinct by construction).
C2_IdsDistinct ==
    \A a, b \in 1..Len(ids) : a # b => ids[a] # ids[b]

\* C3: in a completed run, if two eligible objects whose embeddings both
\* succeeded resolve to the same domain id X, the earlier being the first
\* eligible object with that domain id, then the earlier is indexed under X,
\* the later under X_<its native id>, the two keys differ and both were
\* upserted.
C3_FirstBareLaterComposite ==
    pc = "done" =>
        \A a, b \in 1..Len(objects) :
            (/\ a < b
             /\ MitreId(objects[a]) = MitreId(objects[b])
             /\ \A m \in 1..(a - 1) : MitreId(objects[m]) # MitreId(objects[a])
             /\ Embedded(objects[a])
             /\ Embedded(objects[b]))
            => LET X == MitreId(objects[a])
                   ka == KeyOf(objects[a].id)
                   kb == KeyOf(objects[b].id)
               IN  /\ ka = X
                   /\ kb = X \o "_" \o objects[b].id
                   /\ ka # kb
                   /\ {ka, kb} \subseteq UpsertedKeys

\* the records whose embedding failed, by the position in the filtered list
SkippedAt == {log[m].at : m \in 1..Len(log)}

\* C4: every record the loop has passed is either in the lists, once, or
\* reported skipped, once, with its domain id, and never both; a failed
\* embedding does not end the run; and a run that completes has handed to the
\* vector store, over all its upsert calls, as many entries as there are
\* eligible records less the failed embeddings, none of them a skipped record.
C4_SkipsCounted ==
    /\ \A k \in 1..count :
        LET inLists == {j \in 1..Len(origins) : origins[j] = objects[k].id}
            inLog == {m \in 1..Len(log) : log[m].at = k}
        IN  /\ Cardinality(inLists) + Cardinality(inLog) = 1
            /\ \A m \in inLog : log[m].skipping = MitreId(objects[k])
    /\ SkippedAt \subseteq 1..count
    /\ pc = "failed" => count = Len(objects)
    /\ pc = "done" =>
        /\ SumLen(calls) = Len(objects) - Cardinality(SkippedAt)
        /\ \A c \in 1..Len(calls) : \A k \in SkippedAt :
            objects[k].id \notin Range(calls[c].origins)

\* one of three eligible records failed, a later one was embedded, and the run
\* completed
C4_Witness ==
    /\ pc = "done"
    /\ Len(objects) = 3
    /\ SkippedAt = {2}
    /\ SumLen(calls) = 2
    /\ origins = <<objects[1].id, objects[3].id>>

\* the number of chunks of n records
Chunks(n) == (n + 99) \div 100

\* C5: the upsert calls of the Batch Indexer over n records are, in the order
\* issued, the chunks [0,100), [100,200), ...: call c carries exactly the
\* records at indices [100(c-1), min(100c, n)), and a run that completes has
\* issued exactly ceil(n/100) calls (none when n = 0), whose chunks
\* concatenated are the full list in its original order.
C5_ChunksCoverInOrder ==
    LET n == Len(documents)
    IN  /\ \A c \in 1..Len(calls) :
            /\ calls[c].lo = 100 * (c - 1)
            /\ calls[c].hi = Min(100 * c, n)
            /\ calls[c].documents =
                 [j \in 1..(calls[c].hi - calls[c].lo) |-> documents[calls[c].lo + j]]
            /\ calls[c].ids =
                 [j \in 1..(calls[c].hi - calls[c].lo) |-> ids[calls[c].lo + j]]
        /\ pc = "done" =>
            /\ Len(calls) = Chunks(n)
            /\ SumLen(calls) = n
            /\ \A j \in 1..n :
                calls[((j - 1) \div 100) + 1].documents[((j - 1) % 100) + 1]
                    = documents[j]

\* 250 records went out in the three chunks [0,100), [100,200), [200,250)
C5_Witness ==
    /\ pc = "done"
    /\ Len(documents) = 250
    /\ Len(calls) = 3
    /\ calls[3].lo = 200
    /\ calls[3].hi = 250

RECURSIVE FullRunIds(_, _)
\* the keys a run assigns to the eligible objects when no embedding fails
FullRunIds(objs, assigned) ==
    IF objs = <<>> THEN assigned
    ELSE FullRunIds(Tail(objs),
                    Append(assigned, UniqId(MitreId(Head(objs)), Head(objs), assigned)))

\* C6: after any sequence of ingestion runs over the same corpus the store
\* never holds two entries for the same source object, and every key present
\* maps to the object it maps to after one fully successful run.
C6_RerunIdempotent ==
    LET elig == load_mitre_data(corpus)
        full == FullRunIds(elig, <<>>)
    IN  /\ \A k1, k2 \in DOMAIN store :
            k1 # k2 => store[k1].origin # store[k2].origin
        /\ \A k \in DOMAIN store :
            \E j \in 1..Len(full) : full[j] = k /\ elig[j].id = store[k].origin

\* C7: a failed upsert is the last call of the run and ends it; at that point
\* the store holds exactly the records of the chunks before the failed one,
\* each as its own chunk wrote it, and nothing of the failed or later chunks.
C7_PrefixCommitted ==
    /\ \A c \in 1..Len(calls) :
        ~calls[c].ok => c = Len(calls) /\ pc = "failed"
    /\ (pc = "failed" /\ calls # <<>>) =>
        LET j == Len(calls) - 1
            committed == 1..Min(100 * j, Len(documents))
        IN  /\ ~calls[Len(calls)].ok
            /\ DOMAIN store = {ids[m] : m \in committed}
            /\ \A m \in committed :
                store[ids[m]] = Entry(documents, embeddings, metadatas, origins, m)

\* the second of three chunks failed: the first 100 records are committed
C7_Witness ==
    /\ pc = "failed"
    /\ Len(documents) = 250
    /\ Len(calls) = 2
    /\ ~calls[2].ok
    /\ Cardinality(DOMAIN store) = 100

\* the positions of the external references of obj naming mitre-attack
MitreRefsAt(obj) ==
    {r \in 1..Len(obj.external_references) :
        obj.external_references[r].source_name = Some("mitre-attack")}

FirstMitreRef(obj) ==
    obj.external_references[CHOOSE r \in MitreRefsAt(obj) :
                                \A r2 \in MitreRefsAt(obj) : r <= r2]

\* C8: for every record of the lists, the domain id of its metadata is the
\* external_id of a reference of its object named mitre-attack, and it is the
\* native id of the object if and only if no reference has that name.
C8_DomainIdFromReference ==
    \A j \in 1..Len(metadatas) :
        LET obj == ObjOf(origins[j])
            d == metadatas[j].mitre_id
        IN  /\ MitreRefsAt(obj) # {} =>
                \E r \in MitreRefsAt(obj) :
                    obj.external_references[r].external_id = Some(d)
            /\ d = obj.id <=> MitreRefsAt(obj) = {}

\* the domain id as the code resolves it
DomainId(obj) ==
    IF /\ MitreRefsAt(obj) # {}
       /\ FirstMitreRef(obj).external_id # None
       /\ FirstMitreRef(obj).external_id # Some("UNKNOWN")
    THEN FirstMitreRef(obj).external_id[1]
    ELSE obj.id

\* C8 amended: for every record of the lists, the domain id of its metadata,
\* of the header of its text and of its key is the external_id of the first
\* reference of its object named mitre-attack when that reference has an
\* external_id other than "UNKNOWN", and the native id of the object otherwise.
C8_DomainIdOfFirstReference ==
    \A j \in 1..Len(metadatas) :
        LET obj == ObjOf(origins[j])
            d == DomainId(obj)
        IN  /\ metadatas[j].mitre_id = d
            /\ documents[j] = generate_document_text(obj, d)
            /\ ids[j] \in {d, d \o "_" \o obj.id}

\* the lists hold a record whose first mitre-attack reference is not its only
\* one, and a record that fell back to its native id although it has a
\* mitre-attack reference
C8_Witness ==
    /\ \E j \in 1..Len(metadatas) :
        /\ Cardinality(MitreRefsAt(ObjOf(origins[j]))) = 2
        /\ metadatas[j].mitre_id = "T2"
    /\ \E j \in 1..Len(metadatas) :
        /\ MitreRefsAt(ObjOf(origins[j])) # {}
        /\ metadatas[j].mitre_id = origins[j]

-----------------------------------------------------------------------------
(* rag_chat.py *)

\* the lines typed at the prompt
Lines == {"", "  ", "exit", " QUIT ", "Exit", " quit now ", "what is T1055?"}

\* input("User: ").strip()
Strip(line) ==
    CASE line = "  " -> ""
      [] line = " QUIT " -> "QUIT"
      [] line = " quit now " -> "quit now"
      [] OTHER -> line

\* Lower that leaves the case as it is
Lower_CaseKept(text) == text

\* user_input.lower()
Lower(text) ==
    CASE text = "QUIT" -> "quit"
      [] text = "Exit" -> "exit"
      [] OTHER -> text

\* the keys of a populated collection, the first n of them
ChatKeys == <<"T1055", "T1547", "T1059", "S0002", "G0016", "M1040">>

ChatEntry(k) ==
    [document |-> k \o ": text", embedding |-> Vector(k \o ": text"),
     metadata |-> [mitre_id |-> k, name |-> "name of " \o k], origin |-> k]

ChatStore(n) == [k \in {ChatKeys[m] : m \in 1..n} |-> ChatEntry(k)]

\* collection.query(query_embeddings=[v], n_results=k): the min(k, count)
\* nearest entries, in a rank order that is the store's own
Rankings(st, k) ==
    {h \in [1..Min(k, Cardinality(DOMAIN st)) -> DOMAIN st] :
        \A a, b \in DOMAIN h : a # b => h[a] # h[b]}

QueryResult(st, h) ==
    [documents |-> <<[r \in DOMAIN h |-> st[h[r]].document]>>,
     metadatas |-> <<[r \in DOMAIN h |-> st[h[r]].metadata]>>]

\* line 30
Source(meta) == "Source: " \o meta.mitre_id \o " (" \o meta.name \o ")"

\* Block with the metadata of the best hit on every document
Block_FirstMeta(res, r) ==
    Source(res.metadatas[1][1]) \o "\n" \o res.documents[1][r]

\* lines 28-31: the block of the document of rank r
Block(res, r) ==
    Source(res.metadatas[1][r]) \o "\n" \o res.documents[1][r]

\* lines 26-33
FormatContext(res) ==
    IF res.documents = <<>> THEN ""
    ELSE Join([r \in 1..Len(res.documents[1]) |-> Block(res, r)],
              "\n\n---\n\n")

\* the deltas of the stream of the chat-completion service
ChunkTexts == {"tok"}

\* lines 67-72
SystemPrompt(ctx) ==
    "You are an expert AI SOC Analyst assistant. "
    \o "Use the provided MITRE ATT&CK context to answer the user's question accurately. "
    \o "If the answer is not in the context, use your general knowledge but mention that it's not in the specific retrieved data.\n\n"
    \o "CONTEXT:\n" \o ctx

\* lines 75-78
Messages(ctx, text) ==
    <<[role |-> "system", content |-> SystemPrompt(ctx)],
      [role |-> "user", content |-> text]>>

\* lines 40-43: the client is opened and the collection is found
ChatConnectOk ==
    /\ cpc = "connect"
    /\ cpc' = "input"
    /\ UNCHANGED <<user_input, results, context, queried, failed, history,
                   messages, full_response, streamed, typed, terminatedBy, svc,
                   turns>>
    /\ UNCHANGED <<ingestVars, auditVars, models>>

\* lines 44-46: the connection or get_collection raises, sys.exit(1)
ChatConnectFail ==
    /\ cpc = "connect"
    /\ cpc' = "exit1"
    /\ UNCHANGED <<user_input, results, context, queried, failed, history,
                   messages, full_response, streamed, typed, terminatedBy, svc,
                   turns>>
    /\ UNCHANGED <<ingestVars, auditVars, models>>

\* the test of line 56
IsExit(text) == Lower(text) \in {"exit", "quit"}

\* line 55: a line is read; lines 56-59: exit, quit and blank lines
ReadInput ==
    /\ cpc = "input"
    /\ \E l \in Lines :
        LET text == Strip(l)
        IN  /\ (~IsExit(text) /\ text # "") => turns < MaxTurns
            /\ typed' = Some(l)
            /\ user_input' = text
            /\ cpc' = IF IsExit(text) THEN "terminated"
                      ELSE IF text = "" THEN "input"
                      ELSE "embed"
            /\ terminatedBy' = IF IsExit(text) THEN "exit" ELSE terminatedBy
    /\ queried' = 0
    /\ svc' = {}
    /\ failed' = "none"
    /\ UNCHANGED <<results, context, history, messages, full_response,
                   streamed, turns>>
    /\ UNCHANGED <<ingestVars, auditVars, models>>

\* line 55 raises (end of input): line 98 prints the error, the loop goes on
ReadInputFail ==
    /\ cpc = "input"
    /\ failed' = "input"
    /\ UNCHANGED <<cpc, user_input, results, context, queried, history,
                   messages, full_response, streamed, typed, terminatedBy, svc,
                   turns>>
    /\ UNCHANGED <<ingestVars, auditVars, models>>

\* get_context, lines 16-17: the query is embedded
EmbedQueryOk ==
    /\ cpc = "embed"
    /\ cpc' = "query"
    /\ svc' = svc \cup {"embed"}
    /\ UNCHANGED <<user_input, results, context, queried, failed, history,
                   messages, full_response, streamed, typed, terminatedBy,
                   turns>>
    /\ models' = models \cup {EMBEDDING_MODEL}
    /\ UNCHANGED <<ingestVars, auditVars>>

\* EmbedQueryFail without the handler of get_context: the exception reaches
\* line 98 of chat_loop and the turn is over
EmbedQueryFail_Propagated ==
    /\ cpc = "embed"
    /\ failed' = "embedding"
    /\ cpc' = "input"
    /\ svc' = svc \cup {"embed"}
    /\ UNCHANGED <<user_input, results, context, queried, history, messages,
                   full_response, streamed, typed, terminatedBy, turns>>
    /\ models' = models \cup {EMBEDDING_MODEL}
    /\ UNCHANGED <<ingestVars, auditVars>>

\* get_context, line 16 raises: lines 34-36 return "", chat_loop goes on
\* at line 64
EmbedQueryFail ==
    /\ cpc = "embed"
    /\ failed' = "embedding"
    /\ context' = ""
    /\ cpc' = "generate"
    /\ svc' = svc \cup {"embed"}
    /\ UNCHANGED <<user_input, results, queried, history, messages,
                   full_response, streamed, typed, terminatedBy, turns>>
    /\ models' = models \cup {EMBEDDING_MODEL}
    /\ UNCHANGED <<ingestVars, auditVars>>

\* get_context, lines 20-33: the store answers, the context is formatted
QueryOk ==
    /\ cpc = "query"
    /\ \E h \in Rankings(store, N_RESULTS) :
        /\ results' = QueryResult(store, h)
        /\ context' = FormatContext(results')
    /\ queried' = queried + 1
    /\ svc' = svc \cup {"query"}
    /\ cpc' = "generate"
    /\ UNCHANGED <<user_input, failed, history, messages, full_response,
                   streamed, typed, terminatedBy, turns>>
    /\ UNCHANGED <<ingestVars, auditVars, models>>

\* get_context, line 20 raises: lines 34-36 return ""
QueryFail ==
    /\ cpc = "query"
    /\ queried' = queried + 1
    /\ svc' = svc \cup {"query"}
    /\ failed' = "query"
    /\ context' = ""
    /\ cpc' = "generate"
    /\ UNCHANGED <<user_input, results, history, messages, full_response,
                   streamed, typed, terminatedBy, turns>>
    /\ UNCHANGED <<ingestVars, auditVars, models>>

\* lines 66-88: the request is built and sent, the stream is opened
Submit ==
    /\ cpc = "generate"
    /\ messages' = Messages(context, user_input)
    /\ full_response' = ""
    /\ streamed' = 0
    /\ svc' = svc \cup {"chat"}
    /\ failed' = "none"
    /\ cpc' = "stream"
    /\ UNCHANGED <<user_input, results, context, queried, history, typed,
                   terminatedBy, turns>>
    /\ UNCHANGED <<ingestVars, auditVars, models>>

\* GenerateFail with the error ending the session
GenerateFail_Exit ==
    /\ cpc = "generate"
    /\ messages' = Messages(context, user_input)
    /\ svc' = svc \cup {"chat"}
    /\ failed' = "chat"
    /\ cpc' = "terminated"
    /\ UNCHANGED <<user_input, results, context, queried, history,
                   full_response, streamed, typed, terminatedBy, turns>>
    /\ UNCHANGED <<ingestVars, auditVars, models>>

\* line 81 raises: line 98 prints the error, the loop goes on
GenerateFail ==
    /\ cpc = "generate"
    /\ messages' = Messages(context, user_input)
    /\ svc' = svc \cup {"chat"}
    /\ failed' = "chat"
    /\ cpc' = "input"
    /\ UNCHANGED <<user_input, results, context, queried, history,
                   full_response, streamed, typed, terminatedBy, turns>>
    /\ UNCHANGED <<ingestVars, auditVars, models>>

\* lines 89-92: one chunk of the stream is printed and accumulated
StreamChunk ==
    /\ cpc = "stream"
    /\ streamed < MaxChunks
    /\ \E content \in ChunkTexts : full_response' = full_response \o content
    /\ streamed' = streamed + 1
    /\ UNCHANGED <<cpc, user_input, results, context, queried, failed, history,
                   messages, typed, terminatedBy, svc, turns>>
    /\ UNCHANGED <<ingestVars, auditVars, models>>

\* line 89 raises in the middle of the stream: line 98, the loop goes on
StreamFail ==
    /\ cpc = "stream"
    /\ failed' = "chat"
    /\ cpc' = "input"
    /\ UNCHANGED <<user_input, results, context, queried, history, messages,
                   full_response, streamed, typed, terminatedBy, svc, turns>>
    /\ UNCHANGED <<ingestVars, auditVars, models>>

\* line 93: the stream is exhausted, the turn is complete
GenerateOk ==
    /\ cpc = "stream"
    /\ turns' = turns + 1
    /\ cpc' = "input"
    /\ UNCHANGED <<user_input, results, context, queried, failed, history,
                   messages, full_response, streamed, typed, terminatedBy, svc>>
    /\ UNCHANGED <<ingestVars, auditVars, models>>

\* lines 95-97: KeyboardInterrupt, which no except Exception catches
Interrupt ==
    /\ cpc \in {"input", "embed", "query", "generate", "stream"}
    /\ cpc' = "terminated"
    /\ terminatedBy' = "interrupt"
    /\ UNCHANGED <<user_input, results, context, queried, failed, history,
                   messages, full_response, streamed, typed, svc, turns>>
    /\ UNCHANGED <<ingestVars, auditVars, models>>

\* chat_loop is started over a collection of up to MaxStore entries
InitChat ==
    /\ \E n \in 0..MaxStore : store = ChatStore(n)
    /\ corpus = <<>>
    /\ run = 0
    /\ pc = "off"
    /\ objects = <<>>
    /\ count = 0
    /\ documents = <<>>
    /\ metadatas = <<>>
    /\ ids = <<>>
    /\ embeddings = <<>>
    /\ origins = <<>>
    /\ log = <<>>
    /\ i = 0
    /\ calls = <<>>
    /\ cpc = "connect"
    /\ user_input = ""
    /\ results = <<>>
    /\ context = ""
    /\ queried = 0
    /\ failed = "none"
    /\ history = <<>>
    /\ messages = <<>>
    /\ full_response = ""
    /\ streamed = 0
    /\ typed = None
    /\ terminatedBy = "none"
    /\ svc = {}
    /\ turns = 0
    /\ AuditOff
    /\ models = {}

NextChat ==
    \/ ChatConnectOk
    \/ ChatConnectFail
    \/ ReadInput
    \/ ReadInputFail
    \/ EmbedQueryOk
    \/ EmbedQueryFail
    \/ QueryOk
    \/ QueryFail
    \/ Submit
    \/ GenerateFail
    \/ StreamChunk
    \/ StreamFail
    \/ GenerateOk
    \/ Interrupt

\* the chat loop over a populated collection
SpecChat == InitChat /\ [][NextChat]_vars

\* the services answer or fail, they do not hang; the stream ends
FairChat ==
    /\ WF_vars(EmbedQueryOk \/ EmbedQueryFail)
    /\ WF_vars(QueryOk \/ QueryFail)
    /\ WF_vars(Submit \/ GenerateFail)
    /\ WF_vars(StreamChunk \/ StreamFail \/ GenerateOk)

-----------------------------------------------------------------------------
(* Properties of the retriever *)

\* C9: when the embedding of the query or the query of the store has just
\* failed, get_context has returned the empty context and the turn goes on to
\* the generation; after a failed embedding no query was sent to the store.
C9_RetrieveDegrades ==
    failed \in {"embedding", "query"} =>
        /\ cpc \in {"generate", "terminated"}
        /\ context = ""
        /\ failed = "embedding" => queried = 0
        /\ failed = "query" => queried = 1

\* a turn whose embedding failed goes on with an empty context, after an
\* earlier turn had retrieved a context
C9_Witness ==
    /\ failed = "embedding"
    /\ cpc = "generate"
    /\ context = ""
    /\ queried = 0
    /\ results # <<>>

\* C10: a context that was retrieved is the blocks
\* "Source: <domain_id> (<name>)\n<document_text>", one per document returned
\* and paired with the metadata of the same rank, in the rank order returned,
\* joined by the separator; there are min(3, entries of the store) of them,
\* 3 when the store holds at least 3.
C10_ContextInRankOrder ==
    (cpc = "generate" /\ failed = "none" /\ queried = 1) =>
        LET docs == results.documents[1]
            metas == results.metadatas[1]
            n == Len(docs)
            block(r) == "Source: " \o metas[r].mitre_id \o " (" \o metas[r].name
                            \o ")\n" \o docs[r]
        IN  /\ Len(metas) = n
            /\ n = Min(3, Cardinality(DOMAIN store))
            /\ Cardinality(DOMAIN store) >= 3 => n = 3
            /\ \A a, b \in 1..n : a # b => docs[a] # docs[b]
            /\ \A r \in 1..n : \E k \in DOMAIN store :
                docs[r] = store[k].document /\ metas[r] = store[k].metadata
            /\ context =
                 CASE n = 0 -> ""
                   [] n = 1 -> block(1)
                   [] n = 2 -> block(1) \o "\n\n---\n\n" \o block(2)
                   [] n = 3 -> block(1) \o "\n\n---\n\n" \o block(2)
                                   \o "\n\n---\n\n" \o block(3)

\* three of four entries came back, not in the order of the keys
C10_Witness ==
    /\ cpc = "generate"
    /\ failed = "none"
    /\ queried = 1
    /\ Cardinality(DOMAIN store) = 4
    /\ Len(results.documents[1]) = 3
    /\ results.metadatas[1][1].mitre_id = "S0002"
    /\ results.metadatas[1][3].mitre_id = "T1055"

-----------------------------------------------------------------------------
(* Properties of the chat loop *)

\* C11: every completed turn has appended its user turn and its assistant
\* response to history, and the request of a turn is the system instruction,
\* then the turns of the completed exchanges in order, then the current user
\* turn.
C11_HistoryKept ==
    /\ Len(history) = 2 * turns
    /\ \A t \in 1..Len(history) :
        history[t].role = IF t % 2 = 1 THEN "user" ELSE "assistant"
    /\ cpc = "stream" =>
        messages = <<[role |-> "system", content |-> SystemPrompt(context)]>>
                     \o history
                     \o <<[role |-> "user", content |-> user_input]>>

C12_Caught ==
    /\ failed = "chat" => (cpc = "input" \/ terminatedBy = "interrupt")
    /\ failed \in {"embedding", "query"} =>
        (cpc = "generate" \/ terminatedBy = "interrupt")
    /\ cpc = "terminated" => terminatedBy \in {"exit", "interrupt"}

\* C12: a failure of the retrieval or of the generation, at the submission or
\* in the stream, leaves the loop running: a failed generation is back at the
\* prompt, a failed retrieval goes on to the generation, the session is only
\* ever ended by an exit command or an interrupt, and after any failure the
\* loop is eventually at the prompt again unless it was ended.
C12_FailureKeepsSession ==
    /\ []C12_Caught
    /\ (failed # "none") ~> (cpc = "input" \/ cpc = "terminated")

\* the stream of the second turn failed after one chunk; the loop is at the
\* prompt
C12_Witness ==
    /\ failed = "chat"
    /\ cpc = "input"
    /\ streamed = 1
    /\ turns = 1

\* the lines whose trimmed, lower-case form is exit or quit, and the blank ones
ExitLines == {"exit", " QUIT ", "Exit"}
BlankLines == {"", "  "}

\* C13: the loop is terminated exactly when the line read last is an exit
\* command or an interrupt has arrived, which it may at the prompt, in the
\* retrieval and in the generation; no service is called for an exit command
\* or for a blank line, and a blank line leaves the loop at the prompt.
C13_TerminatedExactly ==
    /\ cpc = "terminated" <=>
        (terminatedBy = "interrupt" \/ (typed # None /\ typed[1] \in ExitLines))
    /\ terminatedBy = "exit" <=> (typed # None /\ typed[1] \in ExitLines)
    /\ (typed # None /\ typed[1] \in ExitLines) => svc = {}
    /\ (typed # None /\ typed[1] \in BlankLines) =>
        (svc = {} /\ (cpc = "input" \/ terminatedBy = "interrupt"))
    /\ (typed # None /\ typed[1] \notin ExitLines \cup BlankLines
            /\ terminatedBy # "interrupt") =>
        cpc \in {"embed", "query", "generate", "stream", "input"}
    /\ cpc \in {"input", "embed", "query", "generate", "stream"} =>
        ENABLED Interrupt

\* " QUIT " was typed after a completed turn
C13_Witness ==
    /\ cpc = "terminated"
    /\ terminatedBy = "exit"
    /\ typed = Some(" QUIT ")
    /\ turns = 1
    /\ svc = {}

-----------------------------------------------------------------------------
(* audit_mitre.py *)

\* ALLOWED_TYPES without "campaign"
AUDIT_ALLOWED_TYPES_NoCampaign ==
    {"attack-pattern", "malware", "tool", "intrusion-set", "course-of-action"}

\* ALLOWED_TYPES of audit_mitre.py
AUDIT_ALLOWED_TYPES ==
    {"attack-pattern", "malware", "tool", "intrusion-set",
     "course-of-action", "campaign"}

\* AuditClass with the lifecycle test made before the type test
AuditClass_LifecycleFirst(obj) ==
    IF Truthy(obj.revoked) \/ Truthy(obj.x_mitre_deprecated) THEN "revoked"
    ELSE IF obj.type = None \/ obj.type[1] \notin AUDIT_ALLOWED_TYPES THEN "type"
    ELSE "relevant"

\* the body of the loop of main: which branch an object takes
AuditClass(obj) ==
    IF obj.type = None \/ obj.type[1] \notin AUDIT_ALLOWED_TYPES THEN "type"
    ELSE IF Truthy(obj.revoked) \/ Truthy(obj.x_mitre_deprecated) THEN "revoked"
    ELSE "relevant"

\* the objects of the knowledge bases the audit is run on
AuditShapes ==
    {KnowledgeObject(Some("attack-pattern"), None, None, <<MitreRef("T1")>>),
     KnowledgeObject(Some("malware"), Some(FALSE), Some(FALSE),
                     <<MitreRef("T1")>>),
     KnowledgeObject(Some("campaign"), None, None, <<MitreRef("T2")>>),
     KnowledgeObject(Some("malware"), Some(TRUE), None, <<MitreRef("T2")>>),
     KnowledgeObject(Some("tool"), None, Some(TRUE), <<MitreRef("T2")>>),
     KnowledgeObject(Some("x-mitre-tactic"), None, None, <<MitreRef("TA1")>>),
     KnowledgeObject(Some("x-mitre-tactic"), Some(TRUE), None,
                     <<MitreRef("TA1")>>),
     KnowledgeObject(Some("x-mitre-matrix"), None, Some(TRUE), <<>>),
     KnowledgeObject(None, None, None, <<MitreRef("T1")>>)}

\* lines 24-26: the source file is missing, main returns
AuditFileMissing ==
    /\ apc = "start"
    /\ apc' = "returned"
    /\ outcome' = "file missing"
    /\ UNCHANGED <<scanned, relevant_objects, skipped_types, skipped_revoked>>
    /\ UNCHANGED <<ingestVars, chatVars, models>>

\* lines 28-34: the file is read and the counters are set
AuditOpen ==
    /\ apc = "start"
    /\ apc' = "scan"
    /\ scanned' = 0
    /\ relevant_objects' = <<>>
    /\ skipped_types' = 0
    /\ skipped_revoked' = 0
    /\ UNCHANGED outcome
    /\ UNCHANGED <<ingestVars, chatVars, models>>

\* lines 36-46: one iteration of the loop over all_objects
AuditStep ==
    /\ apc = "scan"
    /\ scanned < Len(corpus)
    /\ LET obj == corpus[scanned + 1]
           class == AuditClass(obj)
       IN  /\ skipped_types' = skipped_types + (IF class = "type" THEN 1 ELSE 0)
           /\ skipped_revoked' =
                  skipped_revoked + (IF class = "revoked" THEN 1 ELSE 0)
           /\ relevant_objects' =
                  IF class = "relevant" THEN Append(relevant_objects, obj)
                  ELSE relevant_objects
    /\ scanned' = scanned + 1
    /\ UNCHANGED <<apc, outcome>>
    /\ UNCHANGED <<ingestVars, chatVars, models>>

\* lines 48-54: the loop is over, the counts are printed
AuditReport ==
    /\ apc = "scan"
    /\ scanned = Len(corpus)
    /\ apc' = "connect"
    /\ UNCHANGED <<scanned, relevant_objects, skipped_types, skipped_revoked,
                   outcome>>
    /\ UNCHANGED <<ingestVars, chatVars, models>>

\* lines 56, 64 raising, caught at lines 82-83
AuditConnectFail ==
    /\ apc = "connect"
    /\ apc' = "returned"
    /\ outcome' = "connect error"
    /\ UNCHANGED <<scanned, relevant_objects, skipped_types, skipped_revoked>>
    /\ UNCHANGED <<ingestVars, chatVars, models>>

\* lines 58-62: get_collection raises, main returns
AuditCollectionMissing ==
    /\ apc = "connect"
    /\ store = EmptyStore
    /\ apc' = "returned"
    /\ outcome' = "no collection"
    /\ UNCHANGED <<scanned, relevant_objects, skipped_types, skipped_revoked>>
    /\ UNCHANGED <<ingestVars, chatVars, models>>

\* lines 64-80: the diagnosis
AuditCompare ==
    /\ apc = "connect"
    /\ LET db_count == Cardinality(DOMAIN store)
           diff == Len(relevant_objects) - db_count
       IN  outcome' = IF diff = 0 THEN "SUCCESS"
                      ELSE IF diff > 0 THEN "MISSING"
                      ELSE "EXTRA"
    /\ apc' = "returned"
    /\ UNCHANGED <<scanned, relevant_objects, skipped_types, skipped_revoked>>
    /\ UNCHANGED <<ingestVars, chatVars, models>>

InitAudit ==
    /\ corpus \in Corpora(AuditShapes, MaxAudit)
    /\ \E n \in 0..MaxStore : store = ChatStore(n)
    /\ run = 0
    /\ pc = "off"
    /\ objects = <<>>
    /\ count = 0
    /\ documents = <<>>
    /\ metadatas = <<>>
    /\ ids = <<>>
    /\ embeddings = <<>>
    /\ origins = <<>>
    /\ log = <<>>
    /\ i = 0
    /\ calls = <<>>
    /\ ChatOff
    /\ models = {}
    /\ apc = "start"
    /\ scanned = 0
    /\ relevant_objects = <<>>
    /\ skipped_types = 0
    /\ skipped_revoked = 0
    /\ outcome = "none"

NextAudit ==
    \/ AuditFileMissing
    \/ AuditOpen
    \/ AuditStep
    \/ AuditReport
    \/ AuditConnectFail
    \/ AuditCollectionMissing
    \/ AuditCompare

SpecAudit == InitAudit /\ [][NextAudit]_vars

-----------------------------------------------------------------------------
(* Properties of the audit *)

\* the positions of the corpus the audit has passed, by the category the
\* specification puts them in
ByType == {k \in 1..scanned : corpus[k].type \notin {Some(t) : t \in AllowSet}}

ByLifecycle ==
    {k \in 1..scanned :
        /\ corpus[k].type \in {Some(t) : t \in AllowSet}
        /\ \/ corpus[k].revoked = Some(TRUE)
           \/ corpus[k].x_mitre_deprecated = Some(TRUE)}

\* C14: at every point of the audit the three counters are the numbers of
\* objects passed so far that have a disallowed type, that have an allowed
\* type and a set revoked or deprecated flag, and that have neither; an
\* object with a disallowed type counts as skipped by type only; so the
\* counters add up to the number of objects passed, and to the size of the
\* corpus once the loop is over.
C14_CountsPartition ==
    /\ skipped_types = Cardinality(ByType)
    /\ skipped_revoked = Cardinality(ByLifecycle)
    /\ Len(relevant_objects) = scanned - Cardinality(ByType \cup ByLifecycle)
    /\ ByType \cap ByLifecycle = {}
    /\ scanned = Len(relevant_objects) + skipped_types + skipped_revoked
    /\ apc \in {"connect", "returned"} /\ outcome # "file missing" =>
           Len(corpus) = Len(relevant_objects) + skipped_types + skipped_revoked

\* two attack-pattern objects and one revoked malware object: 2, 1, 0; and
\* before it a corpus with a revoked object of a disallowed type
C14_Witness ==
    /\ apc = "connect"
    /\ Len(corpus) = 3
    /\ \E a, b, c \in 1..3 :
        /\ {a, b, c} = 1..3
        /\ corpus[a].type = Some("attack-pattern")
        /\ corpus[b].type = Some("attack-pattern")
        /\ corpus[c].type = Some("malware") /\ corpus[c].revoked = Some(TRUE)
    /\ Len(relevant_objects) = 2
    /\ skipped_revoked = 1
    /\ skipped_types = 0

\* a revoked object of a disallowed type is counted as skipped by type
C14_WitnessTypeFirst ==
    /\ apc = "connect"
    /\ \E k \in 1..Len(corpus) :
        /\ corpus[k].type = Some("x-mitre-tactic")
        /\ corpus[k].revoked = Some(TRUE)
    /\ skipped_types = 1
    /\ skipped_revoked = 0

\* C20: once the loop of the audit is over, relevant_objects is the list
\* load_mitre_data returns for the same corpus: the same objects in the same
\* order, hence the same count.
C20_AuditFilterIsIngestionFilter ==
    apc \in {"connect", "returned"} /\ outcome # "file missing" =>
        /\ relevant_objects = load_mitre_data(corpus)
        /\ Len(relevant_objects) = Len(load_mitre_data(corpus))

C20_Witness ==
    /\ apc = "returned"
    /\ outcome = "SUCCESS"
    /\ Len(corpus) = 3
    /\ Len(relevant_objects) = 2
    /\ relevant_objects[1].type = Some("campaign")
    /\ relevant_objects[2].type = Some("attack-pattern")

-----------------------------------------------------------------------------
(* The exit status of the three entry points *)

\* process_mitre.py: main returns, or an exception leaves it uncaught
IngestExit ==
    IF pc = "done" THEN Some(0) ELSE IF pc = "failed" THEN Some(1) ELSE None

\* rag_chat.py: sys.exit(1) of line 46, or chat_loop returns after a break
ChatExit ==
    IF cpc = "exit1" THEN Some(1)
    ELSE IF cpc = "terminated" THEN Some(0)
    ELSE None

\* audit_mitre.py: every path of main ends in a return or falls off its end
AuditExit == IF apc = "returned" THEN Some(0) ELSE None

\* C15: an entry point that ends on a setup failure (file missing, store
\* connection failure, collection missing) ends with exit code 1, having
\* read no input and called no embedding or upsert after the failure; one
\* that completes or is terminated by exit, quit or an interrupt ends with
\* exit code 0.
C15_ExitCodes ==
    /\ outcome \in {"file missing", "connect error", "no collection"} =>
           AuditExit = Some(1)
    /\ outcome \in {"SUCCESS", "MISSING", "EXTRA"} => AuditExit = Some(0)
    /\ outcome = "file missing" => scanned = 0
    /\ pc = "failed" => IngestExit = Some(1)
    /\ pc = "failed" /\ calls = <<>> /\ objects = <<>> => models = {}
    /\ pc = "done" => IngestExit = Some(0)
    /\ cpc = "exit1" => ChatExit = Some(1) /\ typed = None /\ svc = {}
    /\ cpc = "terminated" => ChatExit = Some(0)

-----------------------------------------------------------------------------
(* Indexing, then serving from the store the indexing has written *)

ServeShapes ==
    {KnowledgeObject(Some("attack-pattern"), None, None, <<MitreRef("T1055")>>)}

\* rag_chat.py is started once the run of process_mitre.py is over
ChatStart ==
    /\ pc \in {"done", "failed"}
    /\ cpc = "off"
    /\ cpc' = "connect"
    /\ UNCHANGED <<user_input, results, context, queried, failed, history,
                   messages, full_response, streamed, typed, terminatedBy, svc,
                   turns>>
    /\ UNCHANGED <<ingestVars, auditVars, models>>

InitServe ==
    /\ corpus \in Corpora(ServeShapes, MaxServe)
    /\ store = EmptyStore
    /\ run = 1
    /\ MainStart
    /\ ChatOff
    /\ AuditOff
    /\ models = {}

NextServe ==
    \/ Next
    \/ LoadFail
    \/ ChatStart
    \/ NextChat

SpecServe == InitServe /\ [][NextServe]_vars

\* SpecServe with the chat loop's calls returning or raising
SpecServeFair == SpecServe /\ FairChat

\* C16: all the embedding calls of an execution, those of the ingestion for
\* the documents and those of the retrieval for the queries, name one and the
\* same model.
C16_OneEmbeddingModel ==
    /\ \A a, b \in models : a = b
    /\ Len(embeddings) + Len(log) > 0 => OLLAMA_MODEL \in models
    /\ "embed" \in svc => EMBEDDING_MODEL \in models

\* a document was embedded and stored, and a query is embedded and answered
\* from it
C16_Witness ==
    /\ Len(embeddings) = 1
    /\ pc = "done"
    /\ "embed" \in svc
    /\ queried = 1
    /\ Cardinality(models) = 1

-----------------------------------------------------------------------------
(* Properties of the lists of the ingestion loop *)

\* the position in the filtered list of the object with native id nid
PosOf(nid) == CHOOSE k \in 1..Len(objects) : objects[k].id = nid

\* C17: the key of every record of the lists is a function of the domain ids
\* of the eligible objects before it in filter order alone: its bare domain
\* id when none of them has the same domain id, the composite of domain id
\* and native id otherwise; whether their embeddings failed plays no part.
C17_KeyIgnoresEmbeddingOutcomes ==
    \A j \in 1..Len(ids) :
        LET k == PosOf(origins[j])
            d == MitreId(objects[k])
        IN  ids[j] = IF \E k2 \in 1..(k - 1) : MitreId(objects[k2]) = d
                     THEN d \o "_" \o objects[k].id
                     ELSE d

\* the elements at position j of four parallel lists come from the object
\* with native id nid
FromObject(ks, docs, metas, embs, j, nid) ==
    LET obj == ObjOf(nid)
        d == DomainId(obj)
    IN  /\ ks[j] \in {d, d \o "_" \o nid}
        /\ docs[j] = generate_document_text(obj, d)
        /\ metas[j] = Metadata(obj, d)
        /\ embs[j] = Vector(docs[j])

\* C18: at every point of a run the four lists have one length and their
\* elements at each position are the key, the text, the metadata and the
\* vector of one and the same eligible object, a different object at each
\* position and in filter order; and the four lists of every upsert call have
\* one length and are the same stretch of the four lists.
C18_ListsAligned ==
    /\ Len(ids) = Len(documents)
    /\ Len(metadatas) = Len(documents)
    /\ Len(embeddings) = Len(documents)
    /\ Len(origins) = Len(documents)
    /\ \A j \in 1..Len(documents) :
           FromObject(ids, documents, metadatas, embeddings, j, origins[j])
    /\ \A j1, j2 \in 1..Len(origins) :
           j1 < j2 => PosOf(origins[j1]) < PosOf(origins[j2])
    /\ \A c \in 1..Len(calls) :
        LET call == calls[c]
        IN  /\ Len(call.ids) = call.hi - call.lo
            /\ Len(call.documents) = Len(call.ids)
            /\ Len(call.metadatas) = Len(call.ids)
            /\ Len(call.embeddings) = Len(call.ids)
            /\ \A j \in 1..Len(call.ids) :
                   FromObject(call.ids, call.documents, call.metadatas,
                              call.embeddings, j, origins[call.lo + j])

\* an embedding failed between two records of one domain id, and the lists
\* were upserted
C18_Witness ==
    /\ pc = "done"
    /\ Len(log) = 1
    /\ origins = <<"n1", "n3">>
    /\ ids = <<"T1", "T1_n3">>
    /\ Len(calls) = 1
    /\ calls[1].ok

-----------------------------------------------------------------------------
(* The document text, over objects whose text fields vary *)

DocObject(name, description, platforms, permissions, detection) ==
    [type |-> Some("attack-pattern"), revoked |-> None,
     x_mitre_deprecated |-> None,
     external_references |-> <<MitreRef("T1055")>>, name |-> name,
     description |-> description, x_mitre_platforms |-> platforms,
     x_mitre_detection |-> detection,
     x_mitre_permissions_required |-> permissions]

DocShapes ==
    {DocObject(n, d, pl, pe, de) :
        n \in {None, Some("N")},
        d \in {None, Some("D")},
        pl \in {None, Some(<<>>), Some(<<"Windows">>),
                Some(<<"Windows", "Linux">>)},
        pe \in {None, Some(<<>>), Some(<<"User">>),
                Some(<<"User", "Administrator">>)},
        de \in {None, Some(""), Some("Monitor")}}

InitDoc ==
    /\ corpus \in {<<[id |-> NativeId(1)] @@ o>> : o \in DocShapes}
    /\ store = EmptyStore
    /\ run = 1
    /\ MainStart
    /\ ChatOff
    /\ AuditOff
    /\ models = {}

\* one ingestion run over a corpus of one object
SpecDoc == InitDoc /\ [][Next]_vars

RECURSIVE Underline(_)
Underline(n) == IF n = 0 THEN "" ELSE "=" \o Underline(n - 1)

RECURSIVE CommaJoined(_)
CommaJoined(list) ==
    IF Len(list) = 1 THEN list[1]
    ELSE CommaJoined(SubSeq(list, 1, Len(list) - 1)) \o ", " \o list[Len(list)]

\* an optional line: nothing when the field is absent or empty
ListLine(label, field) ==
    IF field = None \/ field = Some(<<>>) THEN ""
    ELSE "\n\n" \o label \o ": " \o CommaJoined(field[1])

TextLine(label, field) ==
    IF field = None \/ field = Some("") THEN ""
    ELSE "\n\n" \o label \o ": " \o field[1]

\* the text the specification describes for an object
ExpectedText(obj) ==
    LET header == DomainId(obj) \o ": "
                      \o (IF obj.name = None THEN "Unknown" ELSE obj.name[1])
                      \o " (" \o obj.type[1] \o ")"
    IN  header \o "\n\n" \o Underline(Len(header)) \o "\n\n"
            \o "Description: "
            \o (IF obj.description = None THEN "" ELSE obj.description[1])
            \o ListLine("Platforms", obj.x_mitre_platforms)
            \o ListLine("Permissions Required", obj.x_mitre_permissions_required)
            \o TextLine("Detection", obj.x_mitre_detection)

C19_WitnessBare ==
    /\ Len(documents) = 1
    /\ objects[1].x_mitre_platforms = Some(<<>>)
    /\ objects[1].x_mitre_detection = Some("")
    /\ documents[1] = "T1055: Unknown (attack-pattern)\n\n===============================\n\nDescription: "

====
